---- MODULE Spec2Model ----
(***************************************************************************)
(* Requisition ledger (src/database.py): the `requests` table and the      *)
(* Database coroutines that read and write it, run by any number of        *)
(* in-flight command handlers against one shared aiosqlite connection.     *)
(*                                                                         *)
(* Every `await self._connection.execute(...)` is one atomic step: the     *)
(* connection runs the statements of all coroutines one at a time, and a   *)
(* coroutine can be overtaken by others at each await.  A coroutine that   *)
(* awaits twice (complete_request: SELECT, then UPDATE) is two steps.      *)
(* All coroutines share the one connection, so a statement sees every      *)
(* earlier statement's effect whether or not it is committed yet: the      *)
(* `await self._connection.commit()` that follows a write changes nothing  *)
(* a later statement can observe and is folded into the write's step.      *)
(***************************************************************************)
EXTENDS Integers, Sequences, FiniteSets, TLC

\* ---------------------------------------------------------------- bounds
NumProcs == 2       \* command invocations that may be in flight at once
MaxRequests == 1    \* rows ever inserted into `requests`
NumUsers == 2       \* distinct chat users (requesters and crafters alike)
MaxTime == 2        \* readings of the clock
MaxQuantity == 2    \* largest quantity submitted

Procs == 1..NumProcs
Users == 1..NumUsers
Ids == 1..MaxRequests
Quantities == 1..MaxQuantity

\* The quantity field of the request and edit forms accepts 1..99.
MIN_QUANTITY == 1
MAX_QUANTITY == 99

\* What a user may type into the quantity field: the quantities above and
\* one value on either side of the accepted range.
QuantityInputs == Quantities \cup {MIN_QUANTITY - 1, MAX_QUANTITY + 1}

\* The quantity check with its lower limit one too low.
ValidQuantity_from_zero(qty) == ~(qty < MIN_QUANTITY - 1 \/ qty > MAX_QUANTITY)

\* on_submit: `if qty < 1 or qty > 99: raise ValueError`.
ValidQuantity(qty) == ~(qty < MIN_QUANTITY \/ qty > MAX_QUANTITY)

\* SQL NULL / Python None of an INTEGER or TIMESTAMP column.
NULL == 0

\* interaction.user.display_name of user u (a TEXT value, never NULL).
display_name(u) == 100 + u

\* ---------------------------------------------------------------- catalog
\* A slice of EQUIPMENT: one priced item, one category without items.
EQUIPMENT ==
  [c \in {"Tools", "Weapons"} |->
     IF c = "Tools" THEN [i \in {"Impure Extractor Mk6"} |-> <<55, 83>>]
                    ELSE [i \in {} |-> <<0, 0>>]]

\* The (category, item) pairs a caller may hand to create/update: one that
\* is in the catalog and one that is not.
Choices == {<<"Tools", "Impure Extractor Mk6">>, <<"Weapons", "Crysknife">>}

get_item_costs(category, item_name) ==
  LET items == IF category \in DOMAIN EQUIPMENT THEN EQUIPMENT[category]
               ELSE [i \in {} |-> <<0, 0>>]
  IN IF item_name \in DOMAIN items THEN items[item_name] ELSE <<0, 0>>

\* ---------------------------------------------------------------- state
VARIABLES
  requests,   \* the `requests` table: a sequence of rows, row i has id i
  now,        \* the clock read by CURRENT_TIMESTAMP and datetime.utcnow()
  calls,      \* per invocation: the Database call in flight and its result
  window,     \* history: what each call in flight has seen happen to its row
  settings,   \* the guild_settings row: queue_message_id
  channel,    \* the queue channel: the messages posted there, message i has id i
  refresh,    \* per invocation: the locals of update_queue_message
  failures,   \* history: a send or a delete has failed
  user_profiles, \* the `user_profiles` table: the character name saved per user
  role_members \* the users who hold the crafter role in the guild

\* What the command handlers read and write besides the requests table; no
\* statement of the Database coroutines on that table touches it.
projection == <<settings, channel, refresh, failures, user_profiles, role_members>>

vars == <<requests, now, calls, window, settings, channel, refresh, failures,
          user_profiles, role_members>>

\* What get_request returns for a missing row (Python None).
NoRow ==
  [id |-> NULL, requester_id |-> NULL, character_name |-> "",
   category |-> "", item_name |-> "",
   quantity |-> 0, plastanium_cost |-> 0, spice_cost |-> 0, status |-> "none",
   crafter_id |-> NULL, crafter_name |-> NULL, created_at |-> NULL,
   claimed_at |-> NULL, completed_at |-> NULL]

\* No character, category, item and quantity: the call is not a create or an
\* update.
NoArgs == [character_name |-> "", category |-> "", item_name |-> "", quantity |-> 0]

\* The character names the users type into the request form or save with
\* /set-character; a user may change theirs between requests.
CharacterNames == {"Paul", "Usul"}

\* get_character_name for a user without a row in user_profiles (Python
\* None).
NoName == ""

\* update_queue_message not running: no settings read, no list, no message.
NoRefresh == [old |-> NULL, requests |-> <<>>, new_message |-> NULL]

Idle ==
  [pc |-> "idle", op |-> "none", id |-> NULL, user |-> NULL, args |-> NoArgs,
   ok |-> FALSE, val |-> 0, row |-> NoRow]

\* A window: the row's status when the call was made, the calls in flight that
\* have changed the row since, and whether a call that did has returned.
Quiet == [pre |-> "none", seen |-> {}, past |-> FALSE]

Exists(id) == id \in 1..Len(requests)

get_request(request_id) ==
  IF Exists(request_id) THEN requests[request_id] ELSE NoRow

\* ORDER BY created_at ASC / DESC over the rows `ids`: each row once, with
\* created_at never decreasing (ASC) or never increasing (DESC).  SQL leaves
\* the order among rows with equal created_at open, so this is the set of
\* every result the statement may return: any row that no other row must
\* precede comes first, then any ordering of the rest.
RECURSIVE OrderByCreatedAt(_, _)
OrderByCreatedAt(ids, dir) ==
  IF ids = {} THEN {<<>>}
  ELSE LET first == {i \in ids : \A j \in ids :
                       IF dir = "ASC"
                       THEN requests[i].created_at <= requests[j].created_at
                       ELSE requests[i].created_at >= requests[j].created_at}
       IN UNION {{<<requests[i]>> \o rest : rest \in OrderByCreatedAt(ids \ {i}, dir)} :
                   i \in first}

\* SELECT * FROM requests WHERE status IN ('pending', 'claimed')
\* ORDER BY created_at ASC: the results the query may return.
get_active_requests ==
  OrderByCreatedAt({id \in 1..Len(requests) :
                      requests[id].status \in {"pending", "claimed"}}, "ASC")

\* SELECT * FROM requests WHERE requester_id = ? AND status IN ('pending',
\* 'claimed') ORDER BY created_at DESC: the results the query may return.
get_user_requests(user_id) ==
  OrderByCreatedAt({id \in 1..Len(requests) :
                      /\ requests[id].requester_id = user_id
                      /\ requests[id].status \in {"pending", "claimed"}}, "DESC")

\* The ids of the rows a list holds.
RowIds(rows) == {rows[i].id : i \in 1..Len(rows)}

ActiveIds == UNION {RowIds(rows) : rows \in get_active_requests}

\* ---------------------------------------------------------------- reports
\* The datetimes a report may be called with; None is NULL.  A datetime is
\* always truthy, so `if start_date and end_date` asks whether both are given.
Times == 1..MaxTime

\* The rows a report reads.  `if start_date and end_date`: WHERE status =
\* 'completed' AND completed_at >= ? AND completed_at <= ?; `elif start_date`:
\* ... AND completed_at >= ?; otherwise WHERE status = 'completed' alone.
CompletedIn(start_date, end_date) ==
  {id \in 1..Len(requests) :
     /\ requests[id].status = "completed"
     /\ IF start_date # NULL /\ end_date # NULL
        THEN /\ requests[id].completed_at >= start_date
             /\ requests[id].completed_at <= end_date
        ELSE IF start_date # NULL
             THEN requests[id].completed_at >= start_date
             ELSE TRUE}

\* ORDER BY <col> ASC / DESC over the set S: each element once, the column never
\* decreasing (ASC) or never increasing (DESC), elements with equal keys in
\* any order.
Orderings(S, col, dir) ==
  LET n == Cardinality(S)
  IN {f \in [1..n -> S] :
        /\ \A i, j \in 1..n : i # j => f[i] # f[j]
        /\ \A i, j \in 1..n :
             i < j => IF dir = "ASC" THEN f[i][col] <= f[j][col]
                                     ELSE f[i][col] >= f[j][col]}

\* SUM(col) over the rows `ids`; over no rows SQL's SUM is NULL.
RECURSIVE Sum(_, _)
Sum(ids, col) ==
  IF ids = {} THEN NULL
  ELSE LET id == CHOOSE x \in ids : TRUE
       IN requests[id][col] + Sum(ids \ {id}, col)

\* SELECT * ... ORDER BY completed_at DESC.
CompletedRows(ids) ==
  Orderings({requests[id] : id \in ids}, "completed_at", "DESC")

get_completed_requests(start_date, end_date) ==
  CompletedRows(CompletedIn(start_date, end_date))

\* SELECT requester_id, character_name, COUNT(*), SUM(quantity),
\* SUM(plastanium_cost), SUM(spice_cost) ... GROUP BY requester_id,
\* character_name ORDER BY total_items DESC.  (requester_name, a bare column
\* taken from some row of the group, is left out.)
RequesterTotals(ids) ==
  LET groups == {<<requests[id].requester_id, requests[id].character_name>> : id \in ids}
      members(g) == {id \in ids : /\ requests[id].requester_id = g[1]
                                  /\ requests[id].character_name = g[2]}
      entry(g) == [requester_id |-> g[1], character_name |-> g[2],
                   request_count |-> Cardinality(members(g)),
                   total_items |-> Sum(members(g), "quantity"),
                   total_plastanium |-> Sum(members(g), "plastanium_cost"),
                   total_spice |-> Sum(members(g), "spice_cost")]
  IN Orderings({entry(g) : g \in groups}, "total_items", "DESC")

get_requester_totals(start_date, end_date) ==
  RequesterTotals(CompletedIn(start_date, end_date))

\* SELECT crafter_id, COUNT(*), SUM(...) ... GROUP BY crafter_id ORDER BY
\* total_items DESC.  (crafter_name, a bare column, is left out.)
CrafterTotals(ids) ==
  LET groups == {requests[id].crafter_id : id \in ids}
      members(g) == {id \in ids : requests[id].crafter_id = g}
      entry(g) == [crafter_id |-> g,
                   request_count |-> Cardinality(members(g)),
                   total_items |-> Sum(members(g), "quantity"),
                   total_plastanium |-> Sum(members(g), "plastanium_cost"),
                   total_spice |-> Sum(members(g), "spice_cost")]
  IN Orderings({entry(g) : g \in groups}, "total_items", "DESC")

get_crafter_totals(start_date, end_date) ==
  CrafterTotals(CompletedIn(start_date, end_date))

\* SELECT item_name, COUNT(*), SUM(...) ... GROUP BY item_name ORDER BY
\* total_quantity DESC.  (category, a bare column, is left out.)
ItemTotals(ids) ==
  LET groups == {requests[id].item_name : id \in ids}
      members(g) == {id \in ids : requests[id].item_name = g}
      entry(g) == [item_name |-> g,
                   request_count |-> Cardinality(members(g)),
                   total_quantity |-> Sum(members(g), "quantity"),
                   total_plastanium |-> Sum(members(g), "plastanium_cost"),
                   total_spice |-> Sum(members(g), "spice_cost")]
  IN Orderings({entry(g) : g \in groups}, "total_quantity", "DESC")

get_item_totals(start_date, end_date) ==
  ItemTotals(CompletedIn(start_date, end_date))

\* row["total_plastanium"] or 0: None and 0 both give 0.
OrZero(v) == IF v = NULL THEN 0 ELSE v

\* SELECT SUM(plastanium_cost), SUM(spice_cost) ...; fetchone.
MaterialTotals(ids) ==
  [total_plastanium |-> OrZero(Sum(ids, "plastanium_cost")),
   total_spice |-> OrZero(Sum(ids, "spice_cost"))]

get_material_totals(start_date, end_date) ==
  MaterialTotals(CompletedIn(start_date, end_date))

Init ==
  /\ requests = <<>>
  /\ now = 1
  /\ calls = [p \in Procs |-> Idle]
  /\ window = [p \in Procs |-> Quiet]
  /\ settings = [queue_message_id |-> NULL, crafter_role_id |-> NULL]
  /\ channel = <<>>
  /\ refresh = [p \in Procs |-> NoRefresh]
  /\ failures = FALSE
  /\ user_profiles = [u \in Users |-> NoName]
  /\ role_members = {}

\* ---------------------------------------------------------------- history
\* Proc p's statement changed the rows `ids`: every other call in flight on
\* one of them has now seen p act inside its window.
Note(p, ids) ==
  [q \in Procs |->
     IF q # p /\ calls[q].pc # "idle" /\ calls[q].id \in ids
     THEN [window[q] EXCEPT !.seen = @ \cup {p}]
     ELSE window[q]]

\* Proc p's call has returned: its own window closes, and in the windows of
\* the calls still in flight it becomes a call that is over (the slot p may be
\* used again by a later call, which is not the one they saw).
Forget(p) ==
  [q \in Procs |->
     IF q = p THEN Quiet
     ELSE IF p \in window[q].seen
          THEN [window[q] EXCEPT !.seen = @ \ {p}, !.past = TRUE]
          ELSE window[q]]

\* Proc p's INSERT ran: every other create still waiting for its own INSERT
\* has now seen p act inside its window.
NoteCreate(p) ==
  [q \in Procs |->
     IF q # p /\ calls[q].pc = "called" /\ calls[q].op = "create_request"
     THEN [window[q] EXCEPT !.seen = @ \cup {p}]
     ELSE window[q]]

Finish(p, ok, val, row) ==
  [calls EXCEPT ![p] = [@ EXCEPT !.pc = "done", !.ok = ok, !.val = val, !.row = row]]

At(p, op) == calls[p].pc = "called" /\ calls[p].op = op

\* ---------------------------------------------------------------- steps
Ops == {"create_request", "cancel_request", "clear_pending_requests",
        "update_request", "claim_request", "unclaim_request", "complete_request"}

InFlightCreates == Cardinality({q \in Procs : calls[q].pc = "called" /\ calls[q].op = "create_request"})

Forms == {"create_request", "update_request"}

\* A command handler calls a Database coroutine.  The row id is whatever the
\* user typed: it may name no row.  A create or an update comes from a form
\* whose quantity passed on_submit's check; `cap` is the number of rows the
\* table may grow to, `names` the character names in use and `ops` the
\* commands the users give.
Call(p, cap, names, ops) ==
  /\ calls[p].pc = "idle"
  /\ \E op \in ops, id \in 1..cap, u \in Users, ch \in Choices,
        qty \in QuantityInputs, name \in names :
       /\ op = "create_request" => Len(requests) + InFlightCreates < cap
       /\ op \in Forms => ValidQuantity(qty)
       /\ LET rid == IF op \in {"create_request", "clear_pending_requests"} THEN NULL ELSE id
              usr == IF op = "clear_pending_requests" THEN NULL ELSE u
              args == IF op \in Forms
                      THEN [character_name |-> IF op = "create_request" THEN name ELSE "",
                            category |-> ch[1], item_name |-> ch[2], quantity |-> qty]
                      ELSE NoArgs
          IN /\ calls' = [calls EXCEPT ![p] = [Idle EXCEPT !.pc = "called", !.op = op,
                                                         !.id = rid, !.user = usr,
                                                         !.args = args]]
             /\ window' = [window EXCEPT ![p] = [pre |-> get_request(rid).status, seen |-> {}, past |-> FALSE]]
  /\ UNCHANGED <<requests, now>>
  /\ UNCHANGED projection

\* on_submit of a request or edit form whose quantity is out of range: the
\* handler answers "Invalid quantity" and returns without calling Database.
Reject(p) ==
  /\ calls[p].pc = "idle"
  /\ \E op \in Forms, qty \in QuantityInputs :
       /\ ~ValidQuantity(qty)
       /\ calls' = [calls EXCEPT ![p] = [Idle EXCEPT !.pc = "rejected", !.op = op,
                                                      !.args = [NoArgs EXCEPT !.quantity = qty]]]
  /\ UNCHANGED <<requests, now, window>>
  /\ UNCHANGED projection

\* create_request storing the per-unit costs it was handed, not multiplied.
create_request_unit_costs(p) ==
  /\ At(p, "create_request")
  /\ LET a == calls[p].args
         cost == get_item_costs(a.category, a.item_name)
         lastrowid == Len(requests) + 1
         row == [id |-> lastrowid, requester_id |-> calls[p].user,
                 character_name |-> a.character_name,
                 category |-> a.category, item_name |-> a.item_name,
                 quantity |-> a.quantity,
                 plastanium_cost |-> cost[1], spice_cost |-> cost[2],
                 status |-> "pending", crafter_id |-> NULL, crafter_name |-> NULL,
                 created_at |-> now, claimed_at |-> NULL, completed_at |-> NULL]
     IN /\ requests' = Append(requests, row)
        /\ calls' = Finish(p, TRUE, lastrowid, NoRow)
        /\ window' = NoteCreate(p)
  /\ UNCHANGED now
  /\ UNCHANGED projection

\* create_request numbering the new row with the greatest id in the table
\* instead of the next id of the sequence.
create_request_reuses_id(p) ==
  /\ At(p, "create_request")
  /\ LET a == calls[p].args
         cost == get_item_costs(a.category, a.item_name)
         lastrowid == IF requests = <<>> THEN 1 ELSE Len(requests)
         row == [id |-> lastrowid, requester_id |-> calls[p].user,
                 character_name |-> a.character_name,
                 category |-> a.category, item_name |-> a.item_name,
                 quantity |-> a.quantity,
                 plastanium_cost |-> cost[1] * a.quantity,
                 spice_cost |-> cost[2] * a.quantity,
                 status |-> "pending", crafter_id |-> NULL, crafter_name |-> NULL,
                 created_at |-> now, claimed_at |-> NULL, completed_at |-> NULL]
     IN /\ requests' = Append(requests, row)
        /\ calls' = Finish(p, TRUE, lastrowid, NoRow)
        /\ window' = NoteCreate(p)
  /\ UNCHANGED now
  /\ UNCHANGED projection

\* on_submit looks the per-unit costs up and passes them on; create_request
\* multiplies them by the quantity.
create_request(p) ==
  /\ At(p, "create_request")
  /\ LET a == calls[p].args
         cost == get_item_costs(a.category, a.item_name)
         total_plastanium == cost[1] * a.quantity
         total_spice == cost[2] * a.quantity
         lastrowid == Len(requests) + 1
         row == [id |-> lastrowid, requester_id |-> calls[p].user,
                 character_name |-> a.character_name,
                 category |-> a.category, item_name |-> a.item_name,
                 quantity |-> a.quantity,
                 plastanium_cost |-> total_plastanium, spice_cost |-> total_spice,
                 status |-> "pending", crafter_id |-> NULL, crafter_name |-> NULL,
                 created_at |-> now, claimed_at |-> NULL, completed_at |-> NULL]
     IN /\ requests' = Append(requests, row)
        /\ calls' = Finish(p, TRUE, lastrowid, NoRow)
        /\ window' = NoteCreate(p)
  /\ UNCHANGED now
  /\ UNCHANGED projection

\* cancel_request with `AND status = 'pending'` left out of the WHERE clause.
cancel_request_any_status(p) ==
  /\ At(p, "cancel_request")
  /\ LET id == calls[p].id
         hit == Exists(id) /\ requests[id].requester_id = calls[p].user
     IN IF hit
        THEN /\ requests' = [requests EXCEPT ![id] =
                               [@ EXCEPT !.status = "cancelled"]]
             /\ calls' = Finish(p, TRUE, 1, NoRow)
             /\ window' = Note(p, {id})
        ELSE /\ calls' = Finish(p, FALSE, 0, NoRow)
             /\ UNCHANGED <<requests, window>>
  /\ UNCHANGED now
  /\ UNCHANGED projection

\* cancel_request with `AND requester_id = ?` left out of the WHERE clause.
cancel_request_any_owner(p) ==
  /\ At(p, "cancel_request")
  /\ LET id == calls[p].id
         hit == Exists(id) /\ requests[id].status = "pending"
     IN IF hit
        THEN /\ requests' = [requests EXCEPT ![id].status = "cancelled"]
             /\ calls' = Finish(p, TRUE, 1, NoRow)
             /\ window' = Note(p, {id})
        ELSE /\ calls' = Finish(p, FALSE, 0, NoRow)
             /\ UNCHANGED <<requests, window>>
  /\ UNCHANGED now
  /\ UNCHANGED projection

\* cancel_request with status IN ('pending', 'claimed') in the WHERE clause.
cancel_request_claimed_too(p) ==
  /\ At(p, "cancel_request")
  /\ LET id == calls[p].id
         hit == /\ Exists(id)
                /\ requests[id].requester_id = calls[p].user
                /\ requests[id].status \in {"pending", "claimed"}
     IN IF hit
        THEN /\ requests' = [requests EXCEPT ![id].status = "cancelled"]
             /\ calls' = Finish(p, TRUE, 1, NoRow)
             /\ window' = Note(p, {id})
        ELSE /\ calls' = Finish(p, FALSE, 0, NoRow)
             /\ UNCHANGED <<requests, window>>
  /\ UNCHANGED now
  /\ UNCHANGED projection

cancel_request(p) ==
  /\ At(p, "cancel_request")
  /\ LET id == calls[p].id
         hit == /\ Exists(id)
                /\ requests[id].requester_id = calls[p].user
                /\ requests[id].status = "pending"
     IN IF hit
        THEN /\ requests' = [requests EXCEPT ![id].status = "cancelled"]
             /\ calls' = Finish(p, TRUE, 1, NoRow)
             /\ window' = Note(p, {id})
        ELSE /\ calls' = Finish(p, FALSE, 0, NoRow)
             /\ UNCHANGED <<requests, window>>
  /\ UNCHANGED now
  /\ UNCHANGED projection

\* clear_pending_requests with status IN ('pending', 'claimed') in the WHERE
\* clause.
clear_pending_requests_claimed_too(p) ==
  /\ At(p, "clear_pending_requests")
  /\ LET hits == {id \in 1..Len(requests) : requests[id].status \in {"pending", "claimed"}}
     IN /\ requests' = [id \in 1..Len(requests) |->
                          IF id \in hits THEN [requests[id] EXCEPT !.status = "cancelled"]
                          ELSE requests[id]]
        /\ calls' = Finish(p, hits # {}, Cardinality(hits), NoRow)
        /\ window' = Note(p, hits)
  /\ UNCHANGED now
  /\ UNCHANGED projection

clear_pending_requests(p) ==
  /\ At(p, "clear_pending_requests")
  /\ LET hits == {id \in 1..Len(requests) : requests[id].status = "pending"}
     IN /\ requests' = [id \in 1..Len(requests) |->
                          IF id \in hits THEN [requests[id] EXCEPT !.status = "cancelled"]
                          ELSE requests[id]]
        /\ calls' = Finish(p, hits # {}, Cardinality(hits), NoRow)
        /\ window' = Note(p, hits)
  /\ UNCHANGED now
  /\ UNCHANGED projection

\* update_request writing the new quantity but leaving the stored costs.
update_request_stale_costs(p) ==
  /\ At(p, "update_request")
  /\ LET id == calls[p].id
         a == calls[p].args
         hit == /\ Exists(id)
                /\ requests[id].requester_id = calls[p].user
                /\ requests[id].status = "pending"
     IN IF hit
        THEN /\ requests' = [requests EXCEPT ![id] =
                               [@ EXCEPT !.category = a.category,
                                         !.item_name = a.item_name,
                                         !.quantity = a.quantity]]
             /\ calls' = Finish(p, TRUE, 1, NoRow)
             /\ window' = Note(p, {id})
        ELSE /\ calls' = Finish(p, FALSE, 0, NoRow)
             /\ UNCHANGED <<requests, window>>
  /\ UNCHANGED now
  /\ UNCHANGED projection

\* update_request with `AND requester_id = ?` left out of the WHERE clause.
update_request_any_owner(p) ==
  /\ At(p, "update_request")
  /\ LET id == calls[p].id
         a == calls[p].args
         cost == get_item_costs(a.category, a.item_name)
         hit == Exists(id) /\ requests[id].status = "pending"
     IN IF hit
        THEN /\ requests' = [requests EXCEPT ![id] =
                               [@ EXCEPT !.category = a.category,
                                         !.item_name = a.item_name,
                                         !.quantity = a.quantity,
                                         !.plastanium_cost = cost[1] * a.quantity,
                                         !.spice_cost = cost[2] * a.quantity]]
             /\ calls' = Finish(p, TRUE, 1, NoRow)
             /\ window' = Note(p, {id})
        ELSE /\ calls' = Finish(p, FALSE, 0, NoRow)
             /\ UNCHANGED <<requests, window>>
  /\ UNCHANGED now
  /\ UNCHANGED projection

\* update_request stamping the row anew: created_at = CURRENT_TIMESTAMP added
\* to the SET clause.
update_request_resets_created_at(p) ==
  /\ At(p, "update_request")
  /\ LET id == calls[p].id
         a == calls[p].args
         cost == get_item_costs(a.category, a.item_name)
         hit == /\ Exists(id)
                /\ requests[id].requester_id = calls[p].user
                /\ requests[id].status = "pending"
     IN IF hit
        THEN /\ requests' = [requests EXCEPT ![id] =
                               [@ EXCEPT !.category = a.category,
                                         !.item_name = a.item_name,
                                         !.quantity = a.quantity,
                                         !.plastanium_cost = cost[1] * a.quantity,
                                         !.spice_cost = cost[2] * a.quantity,
                                         !.created_at = now]]
             /\ calls' = Finish(p, TRUE, 1, NoRow)
             /\ window' = Note(p, {id})
        ELSE /\ calls' = Finish(p, FALSE, 0, NoRow)
             /\ UNCHANGED <<requests, window>>
  /\ UNCHANGED now
  /\ UNCHANGED projection

\* update_request with `id = ?` left out of the WHERE clause: it rewrites
\* every pending request of the caller.
update_request_every_own_row(p) ==
  /\ At(p, "update_request")
  /\ LET id == calls[p].id
         a == calls[p].args
         cost == get_item_costs(a.category, a.item_name)
         total_plastanium == cost[1] * a.quantity
         total_spice == cost[2] * a.quantity
         hits == {i \in 1..Len(requests) :
                    /\ requests[i].requester_id = calls[p].user
                    /\ requests[i].status = "pending"}
     IN IF id \in hits
        THEN /\ requests' = [i \in 1..Len(requests) |->
                               IF i \in hits
                               THEN [requests[i] EXCEPT !.category = a.category,
                                                        !.item_name = a.item_name,
                                                        !.quantity = a.quantity,
                                                        !.plastanium_cost = total_plastanium,
                                                        !.spice_cost = total_spice]
                               ELSE requests[i]]
             /\ calls' = Finish(p, TRUE, 1, NoRow)
             /\ window' = Note(p, hits)
        ELSE /\ calls' = Finish(p, FALSE, 0, NoRow)
             /\ UNCHANGED <<requests, window>>
  /\ UNCHANGED now
  /\ UNCHANGED projection

\* update_request with `AND status = 'pending'` left out of the WHERE clause.
update_request_any_status(p) ==
  /\ At(p, "update_request")
  /\ LET id == calls[p].id
         a == calls[p].args
         cost == get_item_costs(a.category, a.item_name)
         total_plastanium == cost[1] * a.quantity
         total_spice == cost[2] * a.quantity
         hit == /\ Exists(id)
                /\ requests[id].requester_id = calls[p].user
     IN IF hit
        THEN /\ requests' = [requests EXCEPT ![id] =
                               [@ EXCEPT !.category = a.category,
                                         !.item_name = a.item_name,
                                         !.quantity = a.quantity,
                                         !.plastanium_cost = total_plastanium,
                                         !.spice_cost = total_spice]]
             /\ calls' = Finish(p, TRUE, 1, NoRow)
             /\ window' = Note(p, {id})
        ELSE /\ calls' = Finish(p, FALSE, 0, NoRow)
             /\ UNCHANGED <<requests, window>>
  /\ UNCHANGED now
  /\ UNCHANGED projection

update_request(p) ==
  /\ At(p, "update_request")
  /\ LET id == calls[p].id
         a == calls[p].args
         cost == get_item_costs(a.category, a.item_name)
         total_plastanium == cost[1] * a.quantity
         total_spice == cost[2] * a.quantity
         hit == /\ Exists(id)
                /\ requests[id].requester_id = calls[p].user
                /\ requests[id].status = "pending"
     IN IF hit
        THEN /\ requests' = [requests EXCEPT ![id] =
                               [@ EXCEPT !.category = a.category,
                                         !.item_name = a.item_name,
                                         !.quantity = a.quantity,
                                         !.plastanium_cost = total_plastanium,
                                         !.spice_cost = total_spice]]
             /\ calls' = Finish(p, TRUE, 1, NoRow)
             /\ window' = Note(p, {id})
        ELSE /\ calls' = Finish(p, FALSE, 0, NoRow)
             /\ UNCHANGED <<requests, window>>
  /\ UNCHANGED now
  /\ UNCHANGED projection

\* claim_request with `AND status = 'pending'` left out of the WHERE clause.
claim_request_any_status(p) ==
  /\ At(p, "claim_request")
  /\ LET id == calls[p].id
         hit == Exists(id)
     IN IF hit
        THEN /\ requests' = [requests EXCEPT ![id] =
                               [@ EXCEPT !.status = "claimed", !.crafter_id = calls[p].user,
                                         !.crafter_name = display_name(calls[p].user),
                                         !.claimed_at = now]]
             /\ calls' = Finish(p, TRUE, 1, NoRow)
             /\ window' = Note(p, {id})
        ELSE /\ calls' = Finish(p, FALSE, 0, NoRow)
             /\ UNCHANGED <<requests, window>>
  /\ UNCHANGED now
  /\ UNCHANGED projection

\* claim_request with `claimed_at = ?` left out of the SET clause.
claim_request_no_claimed_at(p) ==
  /\ At(p, "claim_request")
  /\ LET id == calls[p].id
         hit == Exists(id) /\ requests[id].status = "pending"
     IN IF hit
        THEN /\ requests' = [requests EXCEPT ![id] =
                               [@ EXCEPT !.status = "claimed", !.crafter_id = calls[p].user,
                                         !.crafter_name = display_name(calls[p].user)]]
             /\ calls' = Finish(p, TRUE, 1, NoRow)
             /\ window' = Note(p, {id})
        ELSE /\ calls' = Finish(p, FALSE, 0, NoRow)
             /\ UNCHANGED <<requests, window>>
  /\ UNCHANGED now
  /\ UNCHANGED projection

\* claim_request whose WHERE clause also accepts a row that is claimed already.
claim_request_over_claimed(p) ==
  /\ At(p, "claim_request")
  /\ LET id == calls[p].id
         hit == Exists(id) /\ requests[id].status \in {"pending", "claimed"}
     IN IF hit
        THEN /\ requests' = [requests EXCEPT ![id] =
                               [@ EXCEPT !.status = "claimed",
                                         !.crafter_id = calls[p].user,
                                         !.crafter_name = display_name(calls[p].user),
                                         !.claimed_at = now]]
             /\ calls' = Finish(p, TRUE, 1, NoRow)
             /\ window' = Note(p, {id})
        ELSE /\ calls' = Finish(p, FALSE, 0, NoRow)
             /\ UNCHANGED <<requests, window>>
  /\ UNCHANGED now
  /\ UNCHANGED projection

claim_request(p) ==
  /\ At(p, "claim_request")
  /\ LET id == calls[p].id
         hit == Exists(id) /\ requests[id].status = "pending"
     IN IF hit
        THEN /\ requests' = [requests EXCEPT ![id] =
                               [@ EXCEPT !.status = "claimed",
                                         !.crafter_id = calls[p].user,
                                         !.crafter_name = display_name(calls[p].user),
                                         !.claimed_at = now]]
             /\ calls' = Finish(p, TRUE, 1, NoRow)
             /\ window' = Note(p, {id})
        ELSE /\ calls' = Finish(p, FALSE, 0, NoRow)
             /\ UNCHANGED <<requests, window>>
  /\ UNCHANGED now
  /\ UNCHANGED projection

\* unclaim_request with `AND status = 'claimed'` left out of the WHERE clause.
unclaim_request_any_status(p) ==
  /\ At(p, "unclaim_request")
  /\ LET id == calls[p].id
         hit == Exists(id) /\ requests[id].crafter_id = calls[p].user
     IN IF hit
        THEN /\ requests' = [requests EXCEPT ![id] =
                               [@ EXCEPT !.status = "pending", !.crafter_id = NULL,
                                         !.crafter_name = NULL, !.claimed_at = NULL]]
             /\ calls' = Finish(p, TRUE, 1, NoRow)
             /\ window' = Note(p, {id})
        ELSE /\ calls' = Finish(p, FALSE, 0, NoRow)
             /\ UNCHANGED <<requests, window>>
  /\ UNCHANGED now
  /\ UNCHANGED projection

\* unclaim_request with `claimed_at = NULL` left out of the SET clause.
unclaim_request_keeps_claimed_at(p) ==
  /\ At(p, "unclaim_request")
  /\ LET id == calls[p].id
         hit == /\ Exists(id)
                /\ requests[id].crafter_id = calls[p].user
                /\ requests[id].status = "claimed"
     IN IF hit
        THEN /\ requests' = [requests EXCEPT ![id] =
                               [@ EXCEPT !.status = "pending", !.crafter_id = NULL,
                                         !.crafter_name = NULL]]
             /\ calls' = Finish(p, TRUE, 1, NoRow)
             /\ window' = Note(p, {id})
        ELSE /\ calls' = Finish(p, FALSE, 0, NoRow)
             /\ UNCHANGED <<requests, window>>
  /\ UNCHANGED now
  /\ UNCHANGED projection

\* unclaim_request with `AND crafter_id = ?` left out of the WHERE clause.
unclaim_request_any_crafter(p) ==
  /\ At(p, "unclaim_request")
  /\ LET id == calls[p].id
         hit == Exists(id) /\ requests[id].status = "claimed"
     IN IF hit
        THEN /\ requests' = [requests EXCEPT ![id] =
                               [@ EXCEPT !.status = "pending", !.crafter_id = NULL,
                                         !.crafter_name = NULL, !.claimed_at = NULL]]
             /\ calls' = Finish(p, TRUE, 1, NoRow)
             /\ window' = Note(p, {id})
        ELSE /\ calls' = Finish(p, FALSE, 0, NoRow)
             /\ UNCHANGED <<requests, window>>
  /\ UNCHANGED now
  /\ UNCHANGED projection

\* unclaim_request whose WHERE clause also accepts a completed row.
unclaim_request_completed_too(p) ==
  /\ At(p, "unclaim_request")
  /\ LET id == calls[p].id
         hit == /\ Exists(id)
                /\ requests[id].crafter_id = calls[p].user
                /\ requests[id].status \in {"claimed", "completed"}
     IN IF hit
        THEN /\ requests' = [requests EXCEPT ![id] =
                               [@ EXCEPT !.status = "pending", !.crafter_id = NULL,
                                         !.crafter_name = NULL, !.claimed_at = NULL]]
             /\ calls' = Finish(p, TRUE, 1, NoRow)
             /\ window' = Note(p, {id})
        ELSE /\ calls' = Finish(p, FALSE, 0, NoRow)
             /\ UNCHANGED <<requests, window>>
  /\ UNCHANGED now
  /\ UNCHANGED projection

unclaim_request(p) ==
  /\ At(p, "unclaim_request")
  /\ LET id == calls[p].id
         hit == /\ Exists(id)
                /\ requests[id].crafter_id = calls[p].user
                /\ requests[id].status = "claimed"
     IN IF hit
        THEN /\ requests' = [requests EXCEPT ![id] =
                               [@ EXCEPT !.status = "pending", !.crafter_id = NULL,
                                         !.crafter_name = NULL, !.claimed_at = NULL]]
             /\ calls' = Finish(p, TRUE, 1, NoRow)
             /\ window' = Note(p, {id})
        ELSE /\ calls' = Finish(p, FALSE, 0, NoRow)
             /\ UNCHANGED <<requests, window>>
  /\ UNCHANGED now
  /\ UNCHANGED projection

\* complete_request with `request["crafter_id"] != crafter_id` left out of
\* the guard.
complete_request_read_any_crafter(p) ==
  /\ At(p, "complete_request")
  /\ LET request == get_request(calls[p].id)
     IN IF request = NoRow \/ request.status # "claimed"
        THEN calls' = Finish(p, FALSE, 0, NoRow)
        ELSE calls' = [calls EXCEPT ![p] = [@ EXCEPT !.pc = "writing", !.row = request]]
  /\ UNCHANGED <<requests, now, window>>
  /\ UNCHANGED projection

\* complete_request, first await: `request = await self.get_request(id)` and
\* the guard on the row it read.
complete_request_read(p) ==
  /\ At(p, "complete_request")
  /\ LET request == get_request(calls[p].id)
     IN IF \/ request = NoRow
           \/ request.crafter_id # calls[p].user
           \/ request.status # "claimed"
        THEN calls' = Finish(p, FALSE, 0, NoRow)
        ELSE calls' = [calls EXCEPT ![p] = [@ EXCEPT !.pc = "writing", !.row = request]]
  /\ UNCHANGED <<requests, now, window>>
  /\ UNCHANGED projection

\* complete_request, second await: UPDATE ... WHERE id = ?, then return the
\* row read by the first.
complete_request_write(p) ==
  /\ calls[p].pc = "writing"
  /\ LET id == calls[p].id
     IN /\ requests' = [requests EXCEPT ![id] =
                          [@ EXCEPT !.status = "completed", !.completed_at = now]]
        /\ calls' = Finish(p, TRUE, 1, calls[p].row)
        /\ window' = Note(p, {id})
  /\ UNCHANGED now
  /\ UNCHANGED projection

\* The coroutine hands its result to the handler and the invocation ends.
Return(p) ==
  /\ calls[p].pc \in {"done", "rejected"}
  /\ calls' = [calls EXCEPT ![p] = Idle]
  /\ window' = Forget(p)
  /\ UNCHANGED <<requests, now>>
  /\ UNCHANGED projection

Tick ==
  /\ now < MaxTime
  /\ now' = now + 1
  /\ UNCHANGED <<requests, calls, window>>
  /\ UNCHANGED projection

Next ==
  \/ Tick
  \/ \E p \in Procs :
       \/ Call(p, MaxRequests, {"Paul"}, Ops)
       \/ Reject(p)
       \/ create_request(p)
       \/ cancel_request(p)
       \/ clear_pending_requests(p)
       \/ update_request(p)
       \/ claim_request(p)
       \/ unclaim_request(p)
       \/ complete_request_read(p)
       \/ complete_request_write(p)
       \/ Return(p)

Spec == Init /\ [][Next]_vars

\* The table with room for MaxRows rows, the handlers run one at a time:
\* what the list queries return depends on the rows alone.
MaxRows == 2

NextLists ==
  \/ Tick
  \/ \E p \in {NumProcs} :
       \/ Call(p, MaxRows, CharacterNames, Ops)
       \/ Reject(p)
       \/ create_request(p)
       \/ cancel_request(p)
       \/ clear_pending_requests(p)
       \/ update_request(p)
       \/ claim_request(p)
       \/ unclaim_request(p)
       \/ complete_request_read(p)
       \/ complete_request_write(p)
       \/ Return(p)

SpecLists == Init /\ [][NextLists]_vars

\* Creates alone, by handlers running side by side, the table with room for
\* MaxRows rows.
NextCreates ==
  \/ Tick
  \/ \E p \in Procs :
       \/ Call(p, MaxRows, {"Paul"}, {"create_request"})
       \/ Reject(p)
       \/ create_request(p)
       \/ Return(p)

SpecCreates == Init /\ [][NextCreates]_vars

\* ---------------------------------------------------------------- handlers
\* The commands whose handlers call a Database mutation (no handler calls
\* clear_pending_requests).
Commands == Ops \ {"clear_pending_requests"}

\* The handlers that post to the announcement channel before the refresh.
Announced == {"create_request", "claim_request"}

\* The handlers that have not ended.
Busy == {q \in Procs : calls[q].pc # "idle"}

\* The handler has the result of its Database call.  On failure it sends the
\* refusal and ends.  On success it sends the confirmation with
\* interaction.response.send_message, outside any try: when the send raises,
\* the handler ends there.
Respond(p) ==
  /\ calls[p].pc = "done"
  /\ \E sent \in BOOLEAN :
       /\ calls' = [calls EXCEPT ![p] =
                      IF calls[p].ok /\ sent
                      THEN [Idle EXCEPT !.op = calls[p].op,
                                        !.pc = IF calls[p].op \in Announced
                                               THEN "announce" ELSE "refresh"]
                      ELSE Idle]
       /\ failures' = (failures \/ ~sent)
  /\ window' = Forget(p)
  /\ UNCHANGED <<user_profiles, role_members, requests, now, settings, channel, refresh>>

\* channel.send to the announcement channel, outside any try; with no
\* announcement channel configured nothing is sent.
Announce(p) ==
  /\ calls[p].pc = "announce"
  /\ \E sent \in BOOLEAN :
       /\ calls' = [calls EXCEPT ![p] = IF sent THEN [@ EXCEPT !.pc = "refresh"] ELSE Idle]
       /\ failures' = (failures \/ ~sent)
  /\ UNCHANGED <<user_profiles, role_members, requests, now, window, settings, channel, refresh>>

\* update_queue_message: settings = await db.get_guild_settings(guild.id).
get_guild_settings(p) ==
  /\ calls[p].pc = "refresh"
  /\ refresh' = [refresh EXCEPT ![p].old = settings.queue_message_id]
  /\ calls' = [calls EXCEPT ![p].pc = IF settings.queue_message_id # NULL
                                      THEN "delete" ELSE "list"]
  /\ UNCHANGED <<user_profiles, role_members, requests, now, window, settings, channel, failures>>

\* delete_old_message with no try around the delete: when it raises, the
\* refresh ends there.
delete_old_message_fatal(p) ==
  /\ calls[p].pc = "delete"
  /\ LET old == refresh[p].old
     IN \E deleted \in BOOLEAN :
          IF ~channel[old].deleted /\ deleted
          THEN /\ channel' = [channel EXCEPT ![old].deleted = TRUE]
               /\ calls' = [calls EXCEPT ![p].pc = "list"]
               /\ UNCHANGED <<failures, refresh>>
          ELSE /\ failures' = TRUE
               /\ calls' = [calls EXCEPT ![p] = Idle]
               /\ refresh' = [refresh EXCEPT ![p] = NoRefresh]
               /\ UNCHANGED channel
  /\ UNCHANGED <<user_profiles, role_members, requests, now, window, settings>>

\* fetch_message and delete of the old queue message, in a try that passes on
\* NotFound (the message is gone already), Forbidden and HTTPException.
delete_old_message(p) ==
  /\ calls[p].pc = "delete"
  /\ LET old == refresh[p].old
     IN \E deleted \in BOOLEAN :
          IF ~channel[old].deleted /\ deleted
          THEN /\ channel' = [channel EXCEPT ![old].deleted = TRUE]
               /\ UNCHANGED failures
          ELSE /\ failures' = TRUE
               /\ UNCHANGED channel
  /\ calls' = [calls EXCEPT ![p].pc = "list"]
  /\ UNCHANGED <<user_profiles, role_members, requests, now, window, settings, refresh>>

\* `for req in requests[:15]`: the embed shows at most this many rows.
DISPLAY_LIMIT == 15

\* requests[:15].
Displayed(rows) ==
  SubSeq(rows, 1, IF Len(rows) < DISPLAY_LIMIT THEN Len(rows) ELSE DISPLAY_LIMIT)

\* total_plastanium += plast, total_spice += spice over the rows of a loop.
RECURSIVE Total(_, _)
Total(rows, col) ==
  IF rows = <<>> THEN 0 ELSE Head(rows)[col] + Total(Tail(rows), col)

\* An embed without set_footer.
NoFooter == <<>>

\* The embed built from the rows: one field per row of requests[:15], and a
\* footer with the two totals the loop over these rows has added up, set
\* when one of them is positive.
Rendered(rows) ==
  LET shown == Displayed(rows)
      total_plastanium == Total(shown, "plastanium_cost")
      total_spice == Total(shown, "spice_cost")
  IN [fields |->
        [i \in DOMAIN shown |->
           [id |-> shown[i].id, item_name |-> shown[i].item_name,
            quantity |-> shown[i].quantity,
            character_name |-> shown[i].character_name,
            plastanium_cost |-> shown[i].plastanium_cost,
            spice_cost |-> shown[i].spice_cost, crafter_id |-> shown[i].crafter_id]],
      footer |-> IF total_plastanium > 0 \/ total_spice > 0
                 THEN <<total_plastanium, total_spice>> ELSE NoFooter]

\* requests = await db.get_active_requests().
list_active_requests(p) ==
  /\ calls[p].pc = "list"
  /\ \E rows \in get_active_requests :
       refresh' = [refresh EXCEPT ![p].requests = rows]
  /\ calls' = [calls EXCEPT ![p].pc = "send"]
  /\ UNCHANGED <<user_profiles, role_members, requests, now, window, settings, channel, failures>>

\* new_message = await channel.send(embed=embed, file=file), in a try that
\* passes on Forbidden and HTTPException.
send_new_message(p) ==
  /\ calls[p].pc = "send"
  /\ \E sent \in BOOLEAN :
       IF sent
       THEN /\ channel' = Append(channel, [embed |-> Rendered(refresh[p].requests),
                                           deleted |-> FALSE])
            /\ refresh' = [refresh EXCEPT ![p].new_message = Len(channel) + 1]
            /\ calls' = [calls EXCEPT ![p].pc = "set"]
            /\ UNCHANGED failures
       ELSE /\ failures' = TRUE
            /\ refresh' = [refresh EXCEPT ![p] = NoRefresh]
            /\ calls' = [calls EXCEPT ![p] = Idle]
            /\ UNCHANGED channel
  /\ UNCHANGED <<user_profiles, role_members, requests, now, window, settings>>

\* await db.set_queue_message_id(guild.id, new_message.id); the handler ends.
set_queue_message_id(p) ==
  /\ calls[p].pc = "set"
  /\ settings' = [settings EXCEPT !.queue_message_id = refresh[p].new_message]
  /\ refresh' = [refresh EXCEPT ![p] = NoRefresh]
  /\ calls' = [calls EXCEPT ![p] = Idle]
  /\ UNCHANGED <<user_profiles, role_members, requests, now, window, channel, failures>>

\* The handlers of the six commands side by side, each from its Database
\* call to the end of its refresh, until MaxMessages queue messages are posted.
MaxMessages == 2

NextQueue ==
  \E p \in Procs :
    \/ Len(channel) + Cardinality(Busy) < MaxMessages
         /\ Call(p, MaxRequests, {"Paul"}, Commands)
    \/ create_request(p)
    \/ cancel_request(p)
    \/ update_request(p)
    \/ claim_request(p)
    \/ unclaim_request(p)
    \/ complete_request_read(p)
    \/ complete_request_write(p)
    \/ Respond(p)
    \/ Announce(p)
    \/ get_guild_settings(p)
    \/ delete_old_message(p)
    \/ list_active_requests(p)
    \/ send_new_message(p)
    \/ set_queue_message_id(p)

SpecQueue == Init /\ [][NextQueue]_vars

\* /set-queue-channel (src/cogs/admin.py): the handler records the channel
\* and runs update_queue_message before it answers.
set_queue_channel(p) ==
  /\ calls[p].pc = "idle"
  /\ calls' = [calls EXCEPT ![p] = [Idle EXCEPT !.pc = "refresh", !.op = "set_queue_channel"]]
  /\ UNCHANGED <<user_profiles, role_members, requests, now, window, settings, channel, refresh, failures>>

\* The most rows a backlog holds: one more than the embed shows.
MaxActive == 16

\* A table of n requests for qty of the item ch, made by the first user one
\* second after another and all still pending.
Backlog(n, ch, qty) ==
  [i \in 1..n |->
     [id |-> i, requester_id |-> 1, character_name |-> "Paul",
      category |-> ch[1], item_name |-> ch[2], quantity |-> qty,
      plastanium_cost |-> get_item_costs(ch[1], ch[2])[1] * qty,
      spice_cost |-> get_item_costs(ch[1], ch[2])[2] * qty,
      status |-> "pending", crafter_id |-> NULL, crafter_name |-> NULL,
      created_at |-> i, claimed_at |-> NULL, completed_at |-> NULL]]

\* The queue not yet posted, the table holding a backlog of any length up to
\* MaxActive.
InitBacklog ==
  /\ \E n \in 0..MaxActive, ch \in Choices, qty \in Quantities :
       /\ requests = Backlog(n, ch, qty)
       /\ now = IF n = 0 THEN 1 ELSE n
  /\ calls = [p \in Procs |-> Idle]
  /\ window = [p \in Procs |-> Quiet]
  /\ settings = [queue_message_id |-> NULL, crafter_role_id |-> NULL]
  /\ channel = <<>>
  /\ refresh = [p \in Procs |-> NoRefresh]
  /\ failures = FALSE
  /\ user_profiles = [u \in Users |-> NoName]
  /\ role_members = {}

\* Refreshes of the queue over a backlog, side by side, until MaxMessages
\* queue messages are posted.
NextBacklog ==
  \E p \in Procs :
    \/ Len(channel) + Cardinality(Busy) < MaxMessages
         /\ set_queue_channel(p)
    \/ get_guild_settings(p)
    \/ delete_old_message(p)
    \/ list_active_requests(p)
    \/ send_new_message(p)
    \/ set_queue_message_id(p)

SpecBacklog == InitBacklog /\ [][NextBacklog]_vars

\* /set-character: await db.set_character_name(interaction.user.id, name).
set_character(p) ==
  /\ calls[p].pc = "idle"
  /\ \E u \in Users, name \in CharacterNames :
       user_profiles' = [user_profiles EXCEPT ![u] = name]
  /\ UNCHANGED <<requests, now, calls, window, settings, channel, refresh, failures,
                 role_members>>

\* The request forms that are open or submitted and have not run their
\* INSERT yet.
OpenCreates ==
  Cardinality({q \in Procs : /\ calls[q].op = "create_request"
                             /\ calls[q].pc \in {"form", "saving", "called"}})

\* ItemSelect.callback: the user has picked an item; the handler reads the
\* saved character name and opens RequestModalQuick with that name when there
\* is one, RequestModal (which asks for the name) when there is none.
ItemSelect_callback(p) ==
  /\ calls[p].pc = "idle"
  /\ Len(requests) + OpenCreates < MaxRows
  /\ \E u \in Users, ch \in Choices :
       LET saved_name == user_profiles[u]
       IN calls' = [calls EXCEPT ![p] =
                      [Idle EXCEPT !.pc = "form", !.op = "create_request", !.user = u,
                                   !.args = [character_name |-> saved_name,
                                             category |-> ch[1], item_name |-> ch[2],
                                             quantity |-> 0]]]
  /\ UNCHANGED <<requests, now, window>>
  /\ UNCHANGED projection

\* on_submit of the two request forms up to the first await: a quantity out
\* of range is turned away; RequestModal goes on to save the name the user
\* typed, RequestModalQuick to create_request with the name it was opened
\* with.
RequestModal_on_submit(p) ==
  /\ calls[p].pc = "form"
  /\ calls[p].op = "create_request"
  /\ \E qty \in QuantityInputs, name \in CharacterNames :
       calls' = [calls EXCEPT ![p] =
                   IF ~ValidQuantity(qty)
                   THEN [Idle EXCEPT !.pc = "rejected", !.op = "create_request",
                                     !.args = [NoArgs EXCEPT !.quantity = qty]]
                   ELSE IF calls[p].args.character_name = NoName
                        THEN [@ EXCEPT !.pc = "saving", !.args.quantity = qty,
                                       !.args.character_name = name]
                        ELSE [@ EXCEPT !.pc = "called", !.args.quantity = qty]]
  /\ UNCHANGED <<requests, now, window>>
  /\ UNCHANGED projection

\* RequestModal.on_submit: await db.set_character_name(interaction.user.id,
\* self.character_name.value), the upsert of the user's profile.
set_character_name(p) ==
  /\ calls[p].pc = "saving"
  /\ user_profiles' = [user_profiles EXCEPT ![calls[p].user] = calls[p].args.character_name]
  /\ calls' = [calls EXCEPT ![p].pc = "called"]
  /\ UNCHANGED <<requests, now, window, settings, channel, refresh, failures, role_members>>

\* /edit-request: the handler reads the row and goes on to the edit form
\* only for a pending request of the caller; otherwise it answers and ends.
edit_request(p) ==
  /\ calls[p].pc = "idle"
  /\ \E id \in 1..MaxRows, u \in Users :
       LET request == get_request(id)
       IN IF /\ request # NoRow
             /\ request.requester_id = u
             /\ request.status = "pending"
          THEN /\ calls' = [calls EXCEPT ![p] =
                              [Idle EXCEPT !.pc = "form", !.op = "update_request",
                                           !.id = id, !.user = u]]
               /\ window' = [window EXCEPT ![p] =
                               [pre |-> request.status, seen |-> {}, past |-> FALSE]]
          ELSE UNCHANGED <<calls, window>>
  /\ UNCHANGED <<requests, now>>
  /\ UNCHANGED projection

\* EditRequestModal.on_submit up to the first await: a quantity out of range
\* is turned away, any other goes to update_request with the category and
\* item picked in the selects.
EditRequestModal_on_submit(p) ==
  /\ calls[p].pc = "form"
  /\ calls[p].op = "update_request"
  /\ \E qty \in QuantityInputs, ch \in Choices :
       IF ~ValidQuantity(qty)
       THEN /\ calls' = [calls EXCEPT ![p] =
                           [Idle EXCEPT !.pc = "rejected", !.op = "update_request",
                                        !.args = [NoArgs EXCEPT !.quantity = qty]]]
            /\ window' = Forget(p)
       ELSE /\ calls' = [calls EXCEPT ![p] =
                           [@ EXCEPT !.pc = "called",
                                     !.args = [character_name |-> "", category |-> ch[1],
                                               item_name |-> ch[2], quantity |-> qty]]]
            /\ UNCHANGED window
  /\ UNCHANGED <<requests, now>>
  /\ UNCHANGED projection

\* The request and edit forms and /set-character, side by side, the table
\* with room for MaxRows rows.
NextForms ==
  \E p \in Procs :
    \/ set_character(p)
    \/ ItemSelect_callback(p)
    \/ RequestModal_on_submit(p)
    \/ set_character_name(p)
    \/ create_request(p)
    \/ edit_request(p)
    \/ EditRequestModal_on_submit(p)
    \/ update_request(p)
    \/ Return(p)

SpecForms == Init /\ [][NextForms]_vars

\* The one role the administrators hand to /set-crafter-role.
CRAFTER_ROLE == 1

\* /set-crafter-role: await db.set_crafter_role(interaction.guild_id, role.id),
\* given between two commands of the users.
set_crafter_role(p) ==
  /\ \A q \in Procs : calls[q].pc = "idle"
  /\ settings' = [settings EXCEPT !.crafter_role_id = CRAFTER_ROLE]
  /\ UNCHANGED <<requests, now, calls, window, channel, refresh, failures,
                 user_profiles, role_members>>

\* interaction.user.roles: the guild gives the crafter role to a user or
\* takes it away, between two commands.
member_update ==
  /\ \A p \in Procs : calls[p].pc = "idle"
  /\ \E u \in Users :
       role_members' = IF u \in role_members THEN role_members \ {u}
                       ELSE role_members \cup {u}
  /\ UNCHANGED <<requests, now, calls, window, settings, channel, refresh, failures,
                 user_profiles>>

\* `if settings and settings["crafter_role_id"]: ... if role and role not in
\* interaction.user.roles`: a crafter role is configured and the user does
\* not hold it.
NotCrafter(u) == settings.crafter_role_id # NULL /\ u \notin role_members

\* /claim up to claim_request: a user without the configured crafter role is
\* turned away, any other goes on to the Database call.
claim(p) ==
  /\ calls[p].pc = "idle"
  /\ \E id \in 1..MaxRequests, u \in Users :
       /\ calls' = [calls EXCEPT ![p] =
                      IF NotCrafter(u)
                      THEN [Idle EXCEPT !.pc = "rejected", !.op = "claim_request",
                                        !.id = id, !.user = u]
                      ELSE [Idle EXCEPT !.pc = "called", !.op = "claim_request",
                                        !.id = id, !.user = u]]
       /\ window' = [window EXCEPT ![p] =
                       IF NotCrafter(u) THEN Quiet
                       ELSE [pre |-> get_request(id).status, seen |-> {}, past |-> FALSE]]
  /\ UNCHANGED <<requests, now>>
  /\ UNCHANGED projection

\* /queue: a user without the configured crafter role is turned away, any
\* other is shown get_active_requests().
queue(p) ==
  /\ calls[p].pc = "idle"
  /\ \E u \in Users :
       calls' = [calls EXCEPT ![p] =
                   IF NotCrafter(u)
                   THEN [Idle EXCEPT !.pc = "rejected", !.op = "queue", !.user = u]
                   ELSE [Idle EXCEPT !.pc = "done", !.op = "queue", !.user = u,
                                     !.ok = TRUE]]
  /\ UNCHANGED <<requests, now, window>>
  /\ UNCHANGED projection

\* The crafters' commands: /unclaim and /complete call the Database at once,
\* /claim and /queue look at the role first; requests come from /request.
Crafting == {"create_request", "unclaim_request", "complete_request"}

NextRoles ==
  \/ member_update
  \/ \E p \in Procs :
       \/ set_crafter_role(p)
       \/ claim(p)
       \/ queue(p)
       \/ Call(p, MaxRequests, {"Paul"}, Crafting)
       \/ create_request(p)
       \/ claim_request(p)
       \/ unclaim_request(p)
       \/ complete_request_read(p)
       \/ complete_request_write(p)
       \/ Return(p)

SpecRoles == Init /\ [][NextRoles]_vars

\* What the users do to a request while its edit form is open.
Meanwhile == {"create_request", "cancel_request", "claim_request", "unclaim_request",
              "complete_request"}

\* The edit flow of a request's owner side by side with the other commands on
\* that request.
NextEdits ==
  \E p \in Procs :
    \/ edit_request(p)
    \/ EditRequestModal_on_submit(p)
    \/ update_request(p)
    \/ Call(p, MaxRequests, {"Paul"}, Meanwhile)
    \/ create_request(p)
    \/ cancel_request(p)
    \/ claim_request(p)
    \/ unclaim_request(p)
    \/ complete_request_read(p)
    \/ complete_request_write(p)
    \/ Return(p)

SpecEdits == Init /\ [][NextEdits]_vars

\* The commands that run beside a clearing of the queue.
Clearing == {"create_request", "claim_request", "clear_pending_requests"}

\* clear_pending_requests side by side with creates and claims, the table
\* with room for MaxRows rows.
NextClear ==
  \E p \in Procs :
    \/ Call(p, MaxRows, {"Paul"}, Clearing)
    \/ create_request(p)
    \/ claim_request(p)
    \/ clear_pending_requests(p)
    \/ Return(p)

SpecClear == Init /\ [][NextClear]_vars

\* ---------------------------------------------------------------- claims
Row(id) == requests[id]

\* Proc p's pending statement runs in this step.
Runs(p, op) == At(p, op) /\ calls'[p].pc # "called"

\* Proc p's UPDATE of complete_request runs in this step.
Writes(p) == calls[p].pc = "writing" /\ calls'[p].pc = "done"

Returned(p, op) == calls[p].pc = "done" /\ calls[p].op = op

\* Two claim calls by different crafters on one row that was pending when each
\* was made, both still holding their result, with nothing but the two of
\* them having changed the row since.
ClaimRace(p, q) ==
  /\ p # q
  /\ Returned(p, "claim_request") /\ Returned(q, "claim_request")
  /\ calls[p].id = calls[q].id
  /\ calls[p].user # calls[q].user
  /\ window[p].pre = "pending" /\ window[q].pre = "pending"
  /\ window[p].seen \subseteq {q} /\ window[q].seen \subseteq {p}
  /\ ~window[p].past /\ ~window[q].past

\* C1: of two concurrent claims on a pending request by distinct crafters,
\* exactly one returns success, and the row is claimed with the crafter_id
\* and crafter_name of the one that did.
C1_OneClaimWins ==
  \A p, q \in Procs :
    ClaimRace(p, q) =>
      /\ calls[p].ok # calls[q].ok
      /\ LET w == IF calls[p].ok THEN p ELSE q
             r == Row(calls[p].id)
         IN /\ r.status = "claimed"
            /\ r.crafter_id = calls[w].user
            /\ r.crafter_name = display_name(calls[w].user)

C1_Witness ==
  \E p, q \in Procs : ClaimRace(p, q) /\ calls[p].ok /\ window[q].seen = {p}

\* C2: once a request is completed or cancelled, no step changes its status.
C2_TerminalIsFinal ==
  [][\A id \in 1..Len(requests) :
       Row(id).status \in {"completed", "cancelled"} =>
         requests'[id].status = Row(id).status]_vars

\* C3: every change of a request's status is one of pending -> claimed,
\* claimed -> pending, claimed -> completed, pending -> cancelled.
C3_OnlyFourEdges ==
  [][\A id \in 1..Len(requests) :
       requests'[id].status # Row(id).status =>
         <<Row(id).status, requests'[id].status>> \in
           {<<"pending", "claimed">>, <<"claimed", "pending">>,
            <<"claimed", "completed">>, <<"pending", "cancelled">>}]_vars

\* C4: crafter_id is non-null if and only if status is claimed or completed.
C4_CrafterIffClaimedOrCompleted ==
  \A id \in 1..Len(requests) :
    (Row(id).crafter_id # NULL) <=> (Row(id).status \in {"claimed", "completed"})

\* C5 as stated: status = claimed if and only if crafter_id and claimed_at
\* are both set.
C5_ClaimedIffCrafterAndClaimedAt ==
  \A id \in 1..Len(requests) :
    (Row(id).status = "claimed") <=>
      (Row(id).crafter_id # NULL /\ Row(id).claimed_at # NULL)

\* C5 amended: a claimed request has crafter_id and claimed_at set, and a
\* request with both set is claimed or completed (completion keeps them).
C5_ClaimedHasCrafterAndClaimedAt ==
  \A id \in 1..Len(requests) :
    /\ Row(id).status = "claimed" =>
         (Row(id).crafter_id # NULL /\ Row(id).claimed_at # NULL)
    /\ (Row(id).crafter_id # NULL /\ Row(id).claimed_at # NULL) =>
         Row(id).status \in {"claimed", "completed"}

C5_Witness ==
  \E id \in 1..Len(requests) :
    /\ Row(id).status = "completed"
    /\ Row(id).crafter_id # NULL /\ Row(id).claimed_at # NULL

\* C6: when complete(id, c) writes status = completed, the request has status
\* claimed and crafter_id = c at that instant.
C6_CompleteGuardAtWrite ==
  [][\A p \in Procs :
       Writes(p) =>
         /\ Row(calls[p].id).status = "claimed"
         /\ Row(calls[p].id).crafter_id = calls[p].user]_vars

\* The guard of complete(id, c) fails on the table as it is now.
CompleteRefused(p) ==
  \/ ~Exists(calls[p].id)
  \/ Row(calls[p].id).status # "claimed"
  \/ Row(calls[p].id).crafter_id # calls[p].user

\* C7: complete(id, c) on a request that does not exist, is not claimed, or
\* is claimed by another crafter returns no row and changes no request.
C7_CompleteRefusedIsNoOp ==
  [][\A p \in Procs :
       (Runs(p, "complete_request") /\ CompleteRefused(p)) =>
         /\ calls'[p].pc = "done"
         /\ ~calls'[p].ok
         /\ calls'[p].row = NoRow
         /\ requests' = requests]_vars

C7_Witness ==
  \E p \in Procs :
    /\ Returned(p, "complete_request") /\ ~calls[p].ok
    /\ window[p].seen = {} /\ ~window[p].past
    /\ Exists(calls[p].id)
    /\ Row(calls[p].id).status = "claimed"
    /\ Row(calls[p].id).crafter_id # calls[p].user
    /\ Row(calls[p].id).completed_at = NULL

\* C8: after a successful complete the request is completed with completed_at
\* set, and from then on it is never in list_active().
C8_CompletedStaysOutOfActive ==
  /\ [][\A p \in Procs :
          Writes(p) =>
            /\ requests'[calls[p].id].status = "completed"
            /\ requests'[calls[p].id].completed_at # NULL
            /\ calls[p].id \notin ActiveIds']_vars
  /\ [][\A id \in 1..Len(requests) :
          Row(id).status = "completed" =>
            /\ requests'[id].status = "completed"
            /\ requests'[id].completed_at # NULL
            /\ id \notin ActiveIds']_vars

C8_Witness ==
  \E p \in Procs :
    /\ Returned(p, "complete_request") /\ calls[p].ok
    /\ calls[p].row.crafter_id = calls[p].user
    /\ Row(calls[p].id).status = "completed"
    /\ Row(calls[p].id).completed_at # NULL
    /\ calls[p].id \notin ActiveIds

\* C9: the row a successful complete returns has status completed and
\* completed_at set, and equals what get(id) returns right after.
C9_CompleteReturnsFinalRow ==
  [][\A p \in Procs :
       Writes(p) =>
         /\ calls'[p].row.status = "completed"
         /\ calls'[p].row.completed_at # NULL
         /\ calls'[p].row = requests'[calls[p].id]]_vars

\* C10: cancel(id, u) by the owner of a pending request succeeds and sets
\* status cancelled; a cancel of a request that is not pending fails and
\* changes nothing, a cancelled request is never pending again, and of the
\* cancel calls on one id holding a result at most one holds success.
C10_CancelOnce ==
  /\ [][\A p \in Procs :
          Runs(p, "cancel_request") /\ Exists(calls[p].id) =>
            IF /\ Row(calls[p].id).status = "pending"
               /\ Row(calls[p].id).requester_id = calls[p].user
            THEN calls'[p].ok /\ requests'[calls[p].id].status = "cancelled"
            ELSE ~calls'[p].ok /\ requests' = requests]_vars
  /\ [][\A id \in 1..Len(requests) :
          Row(id).status = "cancelled" => requests'[id].status # "pending"]_vars
  /\ [](\A p, q \in Procs :
          (/\ p # q
           /\ Returned(p, "cancel_request") /\ Returned(q, "cancel_request")
           /\ calls[p].id = calls[q].id)
          => ~(calls[p].ok /\ calls[q].ok))

C10_Witness ==
  \E p, q \in Procs :
    /\ p # q
    /\ Returned(p, "cancel_request") /\ Returned(q, "cancel_request")
    /\ calls[p].id = calls[q].id /\ calls[p].user = calls[q].user
    /\ window[p].pre = "pending" /\ window[q].pre = "pending"
    /\ calls[p].ok /\ ~calls[q].ok
    /\ Row(calls[p].id).status = "cancelled"

\* C11: cancel_request(id, u) on a row whose requester_id is not u returns
\* failure and leaves the row as it was, whatever the row's status.
C11_CancelByNonOwnerFails ==
  [][\A p \in Procs :
       (/\ Runs(p, "cancel_request")
        /\ Exists(calls[p].id)
        /\ Row(calls[p].id).requester_id # calls[p].user)
       => ~calls'[p].ok /\ requests' = requests]_vars

\* A non-owner's cancel has returned on a row that was pending throughout.
C11_Witness ==
  \E p \in Procs :
    /\ Returned(p, "cancel_request")
    /\ Exists(calls[p].id)
    /\ Row(calls[p].id).requester_id # calls[p].user
    /\ window[p].pre = "pending" /\ window[p].seen = {} /\ ~window[p].past
    /\ Row(calls[p].id).status = "pending"
    /\ ~calls[p].ok

\* C12: unclaim_request by the crafter holding the claim succeeds and leaves
\* the row pending with crafter_id, crafter_name and claimed_at null; a
\* claim_request by another crafter on the row so released succeeds and
\* records that crafter.
C12_UnclaimThenClaimByOther ==
  /\ [][\A p \in Procs :
          (/\ Runs(p, "unclaim_request")
           /\ Exists(calls[p].id)
           /\ Row(calls[p].id).status = "claimed"
           /\ Row(calls[p].id).crafter_id = calls[p].user)
          => /\ calls'[p].ok
             /\ requests'[calls[p].id].status = "pending"
             /\ requests'[calls[p].id].crafter_id = NULL
             /\ requests'[calls[p].id].crafter_name = NULL
             /\ requests'[calls[p].id].claimed_at = NULL]_vars
  /\ [][\A p \in Procs :
          (/\ Runs(p, "claim_request")
           /\ Exists(calls[p].id)
           /\ Row(calls[p].id).status = "pending")
          => /\ calls'[p].ok
             /\ requests'[calls[p].id].status = "claimed"
             /\ requests'[calls[p].id].crafter_id = calls[p].user
             /\ requests'[calls[p].id].crafter_name = display_name(calls[p].user)]_vars
  /\ [](\A id \in 1..Len(requests) :
          Row(id).status = "pending" =>
            /\ Row(id).crafter_id = NULL
            /\ Row(id).crafter_name = NULL
            /\ Row(id).claimed_at = NULL)

\* X's unclaim of a row X had claimed has returned success, and Y's claim,
\* made after the release, has returned success with Y recorded.
C12_Witness ==
  \E p, q \in Procs :
    /\ p # q
    /\ Returned(p, "unclaim_request") /\ calls[p].ok
    /\ Returned(q, "claim_request") /\ calls[q].ok
    /\ calls[p].id = calls[q].id
    /\ calls[p].user # calls[q].user
    /\ window[p].pre = "claimed" /\ window[p].seen = {q}
    /\ window[q].pre = "pending" /\ window[q].seen = {}
    /\ Row(calls[q].id).status = "claimed"
    /\ Row(calls[q].id).crafter_id = calls[q].user

\* C13: unclaim_request(id, c) succeeds exactly when the row is claimed with
\* crafter_id = c; in every other case it returns failure and leaves the row
\* (status, crafter fields, claimed_at) as it was.
C13_UnclaimOnlyByClaimant ==
  [][\A p \in Procs :
       Runs(p, "unclaim_request") =>
         IF /\ Exists(calls[p].id)
            /\ Row(calls[p].id).status = "claimed"
            /\ Row(calls[p].id).crafter_id = calls[p].user
         THEN calls'[p].ok
         ELSE ~calls'[p].ok /\ requests' = requests]_vars

\* Another crafter's unclaim has returned failure on a row that stayed claimed.
C13_Witness ==
  \E p \in Procs :
    /\ Returned(p, "unclaim_request") /\ ~calls[p].ok
    /\ Exists(calls[p].id)
    /\ window[p].pre = "claimed" /\ window[p].seen = {} /\ ~window[p].past
    /\ Row(calls[p].id).status = "claimed"
    /\ Row(calls[p].id).crafter_id # calls[p].user
    /\ Row(calls[p].id).claimed_at # NULL

\* C14: claim_request on a row that is not pending (claimed, completed,
\* cancelled) or on an id that names no row returns failure and leaves
\* every row as it was.
C14_ClaimOnNonPendingFails ==
  [][\A p \in Procs :
       (/\ Runs(p, "claim_request")
        /\ ~(Exists(calls[p].id) /\ Row(calls[p].id).status = "pending"))
       => ~calls'[p].ok /\ requests' = requests]_vars

\* Y's claim has returned failure on a row X holds, X still recorded.
C14_Witness ==
  \E p \in Procs :
    /\ Returned(p, "claim_request") /\ ~calls[p].ok
    /\ Exists(calls[p].id)
    /\ window[p].pre = "claimed" /\ window[p].seen = {} /\ ~window[p].past
    /\ Row(calls[p].id).status = "claimed"
    /\ Row(calls[p].id).crafter_id \notin {NULL, calls[p].user}
    /\ Row(calls[p].id).crafter_name = display_name(Row(calls[p].id).crafter_id)

\* The fields create_request and update_request write from their arguments.
Content(r) ==
  <<r.category, r.item_name, r.quantity, r.plastanium_cost, r.spice_cost>>

\* What a create or an update with arguments a stores in those fields.
Stored(a) ==
  <<a.category, a.item_name, a.quantity,
    get_item_costs(a.category, a.item_name)[1] * a.quantity,
    get_item_costs(a.category, a.item_name)[2] * a.quantity>>

\* C15: create_request with quantity q and catalog per-unit costs (a, b)
\* for its category and item ((0, 0) for an item not in the catalog) returns
\* the id of a row that get_request shows pending with plastanium_cost = a * q
\* and spice_cost = b * q.
C15_CreateStoresTotals ==
  [][\A p \in Procs :
       Runs(p, "create_request") =>
         LET id == calls'[p].val
             a == calls[p].args
             cost == get_item_costs(a.category, a.item_name)
         IN /\ calls'[p].ok
            /\ id \in 1..Len(requests')
            /\ requests'[id].id = id
            /\ requests'[id].status = "pending"
            /\ requests'[id].quantity = a.quantity
            /\ requests'[id].plastanium_cost = cost[1] * a.quantity
            /\ requests'[id].spice_cost = cost[2] * a.quantity]_vars

\* A create of two of a priced item has returned; the row holds the totals.
C15_Witness ==
  \E p \in Procs :
    /\ Returned(p, "create_request") /\ calls[p].ok
    /\ calls[p].args.quantity = 2
    /\ get_item_costs(calls[p].args.category, calls[p].args.item_name) = <<55, 83>>
    /\ get_request(calls[p].val).status = "pending"
    /\ get_request(calls[p].val).plastanium_cost = 110
    /\ get_request(calls[p].val).spice_cost = 166

\* C16: a row's category, item_name, quantity and costs change only in a
\* successful update_request on that row, and each stored cost is always the
\* catalog per-unit cost of the stored item times the stored quantity.
C16_ContentFrozen ==
  /\ [][\A id \in 1..Len(requests) :
          Content(requests'[id]) # Content(Row(id)) =>
            \E p \in Procs :
              /\ Runs(p, "update_request")
              /\ calls[p].id = id
              /\ calls'[p].ok]_vars
  /\ [](\A id \in 1..Len(requests) :
          LET cost == get_item_costs(Row(id).category, Row(id).item_name)
          IN /\ Row(id).plastanium_cost = cost[1] * Row(id).quantity
             /\ Row(id).spice_cost = cost[2] * Row(id).quantity)

\* An update to two of a priced item succeeded, and the row, completed
\* since, still holds what the update stored.
C16_Witness ==
  \E p \in Procs :
    /\ Returned(p, "update_request") /\ calls[p].ok
    /\ calls[p].args.quantity = 2
    /\ Row(calls[p].id).status = "completed"
    /\ Content(Row(calls[p].id)) = Stored(calls[p].args)
    /\ Row(calls[p].id).plastanium_cost = 110

\* C17: update_request takes effect and returns True exactly when the row
\* exists, is pending and belongs to the caller, and then stores the new
\* category, item, quantity and per-unit costs times quantity, touching
\* nothing else; in every other case it returns False and changes nothing.
C17_UpdateGuard ==
  [][\A p \in Procs :
       Runs(p, "update_request") =>
         LET id == calls[p].id
         IN IF /\ Exists(id)
               /\ Row(id).status = "pending"
               /\ Row(id).requester_id = calls[p].user
            THEN /\ calls'[p].ok
                 /\ Content(requests'[id]) = Stored(calls[p].args)
                 /\ requests' = [requests EXCEPT ![id] =
                       [@ EXCEPT !.category = requests'[id].category,
                                 !.item_name = requests'[id].item_name,
                                 !.quantity = requests'[id].quantity,
                                 !.plastanium_cost = requests'[id].plastanium_cost,
                                 !.spice_cost = requests'[id].spice_cost]]
            ELSE ~calls'[p].ok /\ requests' = requests]_vars

\* The owner's update reached a row that had been pending when the call was
\* made and was claimed meanwhile: it returned False and the row kept its
\* content.
C17_Witness ==
  \E p \in Procs :
    /\ Returned(p, "update_request") /\ ~calls[p].ok
    /\ Exists(calls[p].id)
    /\ Row(calls[p].id).requester_id = calls[p].user
    /\ window[p].pre = "pending"
    /\ Row(calls[p].id).status = "claimed"
    /\ Content(Row(calls[p].id)) # Stored(calls[p].args)

ExactlyOnce(rows, ids) ==
  /\ RowIds(rows) = ids
  /\ Len(rows) = Cardinality(ids)
  /\ \A i \in 1..Len(rows) : rows[i] = Row(rows[i].id)

\* Ids are handed out in creation order (AUTOINCREMENT): of two rows the
\* one with the smaller id was created earlier.
CreatedBefore(r, s) == r.id < s.id

\* C19: get_active_requests returns exactly the pending and claimed rows,
\* each once, created_at strictly ascending: a row created earlier stands
\* before one created later.
C19_ListActiveOldestFirst ==
  \A rows \in get_active_requests :
    /\ ExactlyOnce(rows, {id \in 1..Len(requests) :
                            Row(id).status \in {"pending", "claimed"}})
    /\ \A i, j \in 1..Len(rows) :
         i < j => /\ rows[i].created_at < rows[j].created_at
                  /\ CreatedBefore(rows[i], rows[j])

\* C20: get_user_requests(u) returns exactly u's pending and claimed rows,
\* each once, created_at strictly descending: a row created later stands
\* before one created earlier.
C20_ListForUserNewestFirst ==
  \A u \in Users :
    \A rows \in get_user_requests(u) :
      /\ ExactlyOnce(rows, {id \in 1..Len(requests) :
                              /\ Row(id).requester_id = u
                              /\ Row(id).status \in {"pending", "claimed"}})
      /\ \A i, j \in 1..Len(rows) :
           i < j => /\ rows[i].created_at > rows[j].created_at
                    /\ CreatedBefore(rows[j], rows[i])

\* The completed rows of the half-open window [start, end).
HalfOpen(start, end) ==
  {id \in 1..Len(requests) :
     /\ Row(id).status = "completed"
     /\ start <= Row(id).completed_at
     /\ Row(id).completed_at < end}

\* The completed rows a report over (start, end) is to cover: those of
\* [start, end), or all of them when the report is unbounded.
InWindow(start, end) ==
  IF start = NULL /\ end = NULL
  THEN {id \in 1..Len(requests) : Row(id).status = "completed"}
  ELSE HalfOpen(start, end)

\* A report is called with both ends of its window or with neither.
Windows ==
  {w \in (Times \cup {NULL}) \X (Times \cup {NULL}) : (w[1] = NULL) <=> (w[2] = NULL)}

\* C21: a report called with start and end covers a completed row exactly
\* when start <= completed_at < end: a row completed at start is in, a row
\* completed at end is out.
C21_WindowHalfOpen ==
  \A start, end \in Times :
    LET W == HalfOpen(start, end)
    IN /\ \A rows \in get_completed_requests(start, end) :
            {rows[i].id : i \in DOMAIN rows} = W
       /\ get_requester_totals(start, end) = RequesterTotals(W)
       /\ get_crafter_totals(start, end) = CrafterTotals(W)
       /\ get_item_totals(start, end) = ItemTotals(W)
       /\ get_material_totals(start, end) = MaterialTotals(W)

\* C22: get_material_totals returns the sums of plastanium_cost and of
\* spice_cost over exactly the completed rows of the window (all completed
\* rows when unbounded), (0, 0) when there is none.
C22_MaterialTotals ==
  \A w \in Windows :
    LET W == InWindow(w[1], w[2])
        totals == get_material_totals(w[1], w[2])
    IN /\ totals.total_plastanium = Sum(W, "plastanium_cost")
       /\ totals.total_spice = Sum(W, "spice_cost")
       /\ W = {} => totals.total_plastanium = 0 /\ totals.total_spice = 0

\* The list `totals` has one entry for each value of column `dim` among the
\* rows W, holding the sums of that group, summed quantity never increasing.
OnePerGroup(totals, dim, qty, W) ==
  LET vals == {Row(id)[dim] : id \in W}
  IN /\ {totals[i][dim] : i \in DOMAIN totals} = vals
     /\ Cardinality(DOMAIN totals) = Cardinality(vals)
     /\ \A i \in DOMAIN totals :
          LET group == {id \in W : Row(id)[dim] = totals[i][dim]}
          IN /\ totals[i][qty] = Sum(group, "quantity")
             /\ totals[i].total_plastanium = Sum(group, "plastanium_cost")
             /\ totals[i].total_spice = Sum(group, "spice_cost")
     /\ \A i, j \in DOMAIN totals : i < j => totals[i][qty] >= totals[j][qty]

\* C23: the totals by requester, by crafter and by item each hold exactly one
\* entry per requester_id, crafter_id or item among the completed rows of
\* the window, with the group's summed quantity and costs, ordered by
\* non-increasing summed quantity.
C23_TotalsOnePerGroup ==
  \A w \in Windows :
    LET W == InWindow(w[1], w[2])
    IN /\ \A totals \in get_requester_totals(w[1], w[2]) :
            OnePerGroup(totals, "requester_id", "total_items", W)
       /\ \A totals \in get_crafter_totals(w[1], w[2]) :
            OnePerGroup(totals, "crafter_id", "total_items", W)
       /\ \A totals \in get_item_totals(w[1], w[2]) :
            OnePerGroup(totals, "item_name", "total_quantity", W)

\* C24: every create_request, also one running beside another, returns an
\* id no other row has and greater than every id handed out before; no two
\* rows ever share an id.
C24_IdsUniqueAndIncreasing ==
  /\ [](\A i, j \in 1..Len(requests) : i # j => Row(i).id # Row(j).id)
  /\ [](\A p, q \in Procs :
          (p # q /\ Returned(p, "create_request") /\ Returned(q, "create_request"))
          => calls[p].val # calls[q].val)
  /\ [][\A p \in Procs :
          Runs(p, "create_request") =>
            /\ \A i \in 1..Len(requests) : calls'[p].val > Row(i).id
            /\ \A q \in Procs :
                 (q # p /\ Returned(q, "create_request")) => calls'[p].val > calls[q].val
            /\ \E i \in 1..Len(requests') : requests'[i].id = calls'[p].val]_vars

\* Two creates were waiting for their INSERT at once; both have returned, the
\* one whose INSERT ran second with the greater id.
C24_Witness ==
  \E p, q \in Procs :
    /\ p # q
    /\ Returned(p, "create_request") /\ Returned(q, "create_request")
    /\ window[q].seen = {p} /\ ~window[q].past
    /\ calls[q].val > calls[p].val
    /\ Row(calls[p].val).id = calls[p].val
    /\ Row(calls[q].val).id = calls[q].val

\* C25: a row's requester_id and created_at keep the values create_request
\* gave them through every later statement.
C25_RequesterAndCreatedAtFrozen ==
  [][\A id \in 1..Len(requests) :
       /\ requests'[id].requester_id = Row(id).requester_id
       /\ requests'[id].created_at = Row(id).created_at]_vars

\* A row created at an earlier time has been edited by its owner, claimed
\* and completed since.
C25_Witness ==
  \E p \in Procs :
    /\ Returned(p, "update_request") /\ calls[p].ok
    /\ Row(calls[p].id).status = "completed"
    /\ Row(calls[p].id).requester_id = calls[p].user
    /\ Row(calls[p].id).created_at < Row(calls[p].id).completed_at

\* C26: once a row's completed_at is set no later statement changes it:
\* completed_at is written at most once per row.
C26_CompletedAtWrittenOnce ==
  [][\A id \in 1..Len(requests) :
       Row(id).completed_at # NULL =>
         requests'[id].completed_at = Row(id).completed_at]_vars

\* C27: a successful claim_request sets claimed_at, a successful
\* unclaim_request clears it, nothing else changes it, and on a completed
\* row it never changes again.
C27_ClaimedAtLifecycle ==
  /\ [][\A p \in Procs :
          Runs(p, "claim_request") /\ calls'[p].ok =>
            /\ requests'[calls[p].id].claimed_at = now
            /\ requests'[calls[p].id].claimed_at # NULL]_vars
  /\ [][\A p \in Procs :
          Runs(p, "unclaim_request") /\ calls'[p].ok =>
            requests'[calls[p].id].claimed_at = NULL]_vars
  /\ [][\A id \in 1..Len(requests) :
          requests'[id].claimed_at # Row(id).claimed_at =>
            \E p \in Procs :
              /\ Runs(p, "claim_request") \/ Runs(p, "unclaim_request")
              /\ calls[p].id = id
              /\ calls'[p].ok]_vars
  /\ [][\A id \in 1..Len(requests) :
          Row(id).status = "completed" =>
            requests'[id].claimed_at = Row(id).claimed_at]_vars

\* The crafter's unclaim reached a row that was completed already: it
\* returned failure and claimed_at is still the time of the claim.
C27_Witness ==
  \E p \in Procs :
    /\ Returned(p, "unclaim_request") /\ ~calls[p].ok
    /\ Exists(calls[p].id)
    /\ window[p].pre = "completed"
    /\ Row(calls[p].id).status = "completed"
    /\ Row(calls[p].id).crafter_id = calls[p].user
    /\ Row(calls[p].id).claimed_at # NULL

\* Proc p's handler holds a mutation that succeeded and has not yet started
\* the refresh of the queue message.
Committed(p) ==
  \/ calls[p].pc = "done" /\ calls[p].ok /\ calls[p].op \in Commands
  \/ calls[p].pc = "announce"

\* C28: a handler whose create, cancel, edit, claim, unclaim or complete
\* succeeded goes on to refresh the queue message, also when sending the
\* confirmation or the announcement fails: it never ends between the
\* mutation and the refresh.
C28_MutationThenRefresh ==
  [][\A p \in Procs : Committed(p) => calls'[p].pc # "idle"]_vars

\* No handler is running and no send or delete has failed.
Settled == Busy = {} /\ ~failures

\* C29: once every handler and the refresh it started have ended with no
\* failed post or delete, the message recorded in queue_message_id shows a
\* get_active_requests result of the table as it is now.
C29_QueueMessageCurrent ==
  (Settled /\ settings.queue_message_id # NULL) =>
    channel[settings.queue_message_id].embed
      \in {Rendered(rows) : rows \in get_active_requests}

\* C30: once every refresh has ended with every delete and post succeeding,
\* exactly one queue message is left in the channel, the one recorded in
\* queue_message_id.
C30_OneQueueMessage ==
  (Settled /\ channel # <<>>) =>
    {m \in 1..Len(channel) : ~channel[m].deleted} = {settings.queue_message_id}

\* C31: when two refreshes run side by side and both post, then once both
\* have finished queue_message_id is the id of the message posted last (no
\* send and no delete failing, the message posted last is the last of the
\* channel).
C31_LastPostRecorded ==
  (Settled /\ channel # <<>>) => settings.queue_message_id = Len(channel)

\* The positions of a handler inside update_queue_message.
Refreshing == {"refresh", "delete", "list", "send", "set"}

\* C32: no step of a refresh changes a row of the requests table; after the
\* delete of the old message, failed or not, the refresh goes on to list and
\* to post; a post that succeeded is recorded in queue_message_id; a post
\* that failed leaves queue_message_id as it was and the handler returns.
C32_RefreshTolerant ==
  [][\A p \in Procs :
       calls[p].pc \in Refreshing /\ calls'[p] # calls[p] =>
         /\ requests' = requests
         /\ calls[p].pc = "delete" => calls'[p].pc = "list"
         /\ calls[p].pc = "list" => calls'[p].pc = "send"
         /\ calls[p].pc = "send" /\ channel' # channel =>
              /\ calls'[p].pc = "set"
              /\ refresh'[p].new_message = Len(channel')
              /\ settings' = settings
         /\ calls[p].pc = "send" /\ channel' = channel =>
              /\ settings' = settings
              /\ calls'[p] = Idle
         /\ calls[p].pc = "set" =>
              /\ settings'.queue_message_id = refresh[p].new_message
              /\ calls'[p] = Idle]_vars

\* A refresh whose delete of the recorded message failed has posted the new
\* queue message and is about to record it; the table holds a row.
C32_Witness ==
  \E p \in Procs :
    /\ calls[p].pc = "set"
    /\ refresh[p].old # NULL
    /\ ~channel[refresh[p].old].deleted
    /\ channel[refresh[p].new_message].embed = Rendered(refresh[p].requests)
    /\ Len(requests) > 0

\* The footer of an embed whose totals run over all of `rows`.
FooterOverAll(rows) ==
  LET total_plastanium == Total(rows, "plastanium_cost")
      total_spice == Total(rows, "spice_cost")
  IN IF total_plastanium > 0 \/ total_spice > 0
     THEN <<total_plastanium, total_spice>> ELSE NoFooter

\* C33: the footer of a posted queue message holds the sums of
\* plastanium_cost and spice_cost over every row get_active_requests
\* returned to that refresh, the rows past the first 15 included.
C33_FooterTotalsAll ==
  \A p \in Procs :
    calls[p].pc = "set" =>
      channel[refresh[p].new_message].embed.footer = FooterOverAll(refresh[p].requests)

\* C34: when a create by user u with character name n succeeds, the
\* user_profiles row of u holds n: the saved name is the name on u's newest
\* request, also when u saved another name between opening and submitting the
\* request form.
C34_CreateSavesName ==
  [][\A p \in Procs :
       Runs(p, "create_request") /\ calls'[p].ok =>
         user_profiles'[calls[p].user] = calls[p].args.character_name]_vars

\* C35: with a crafter role configured, a claim, an unclaim, a complete or a
\* queue view by a user who does not hold the role is turned away: its
\* statement changes no row of the requests table and it does not succeed.
C35_CrafterRoleGates ==
  [][\A p \in Procs :
       /\ ( /\ calls[p].pc \in {"called", "writing"}
            /\ calls[p].op \in {"claim_request", "unclaim_request", "complete_request"}
            /\ calls'[p] # calls[p]
            /\ NotCrafter(calls[p].user) )
          => requests' = requests /\ ~calls'[p].ok
       /\ ( /\ calls[p].pc = "idle"
            /\ calls'[p].op = "queue"
            /\ NotCrafter(calls'[p].user) )
          => requests' = requests /\ calls'[p].pc = "rejected"]_vars

\* The columns of a request that neither a create's caller nor an update
\* hands in as content.
Kept ==
  {"id", "requester_id", "character_name", "status", "crafter_id", "crafter_name",
   "created_at", "claimed_at", "completed_at"}

\* C36: a successful update_request changes nothing but category, item_name,
\* quantity and the two costs of its row: the row's other columns, every
\* other row and the user_profiles table stay as they are.
C36_UpdateFrame ==
  [][\A p \in Procs :
       Runs(p, "update_request") /\ calls'[p].ok =>
         /\ Len(requests') = Len(requests)
         /\ \A id \in 1..Len(requests) :
              id # calls[p].id => requests'[id] = Row(id)
         /\ \A col \in Kept : requests'[calls[p].id][col] = Row(calls[p].id)[col]
         /\ user_profiles' = user_profiles]_vars

\* An update has rewritten one of two requests of a user whose saved name is
\* no longer the one on that request; the other request holds other content.
C36_Witness ==
  \E p \in Procs :
    /\ Returned(p, "update_request") /\ calls[p].ok
    /\ Len(requests) = 2
    /\ Content(Row(calls[p].id)) = Stored(calls[p].args)
    /\ \A id \in 1..2 : Row(id).requester_id = calls[p].user
    /\ \E id \in 1..2 : Content(Row(id)) # Stored(calls[p].args)
    /\ user_profiles[calls[p].user] \notin {NoName, Row(calls[p].id).character_name}

\* A claim by p and a cancel by the owner through q on one row that was
\* pending when each was made, both still holding their result, with nothing
\* but the two of them having changed the row since.
ClaimCancelRace(p, q) ==
  /\ p # q
  /\ Returned(p, "claim_request") /\ Returned(q, "cancel_request")
  /\ calls[p].id = calls[q].id
  /\ Exists(calls[q].id)
  /\ Row(calls[q].id).requester_id = calls[q].user
  /\ window[p].pre = "pending" /\ window[q].pre = "pending"
  /\ window[p].seen \subseteq {q} /\ window[q].seen \subseteq {p}
  /\ ~window[p].past /\ ~window[q].past

\* C37: of a claim and the owner's cancel running side by side on a pending
\* request exactly one succeeds; the row ends claimed by the claim's crafter
\* when the claim won, cancelled without a crafter when the cancel won.
C37_ClaimOrCancelWins ==
  \A p, q \in Procs :
    ClaimCancelRace(p, q) =>
      /\ calls[p].ok # calls[q].ok
      /\ LET r == Row(calls[p].id)
         IN IF calls[p].ok
            THEN /\ r.status = "claimed"
                 /\ r.crafter_id = calls[p].user
            ELSE /\ r.status = "cancelled"
                 /\ r.crafter_id = NULL

\* The cancel ran first: the claim, made while the row was pending, came
\* second and was refused.
C37_Witness ==
  \E p, q \in Procs :
    /\ ClaimCancelRace(p, q)
    /\ calls[q].ok
    /\ window[p].seen = {q}
    /\ Row(calls[p].id).status = "cancelled"

\* C38: an edit whose check in /edit-request passed while the request was
\* pending does not alter the request once it is claimed, completed or
\* cancelled: update_request finds the row not pending, returns False and
\* changes nothing, and no step changes category, item, quantity or costs of
\* a request that is not pending.
C38_EditGuardAtUpdate ==
  [][/\ \A p \in Procs :
          /\ Runs(p, "update_request")
          /\ window[p].pre = "pending"
          /\ Row(calls[p].id).status # "pending"
          => requests' = requests /\ ~calls'[p].ok
     /\ \A id \in 1..Len(requests) :
          Row(id).status # "pending" => Content(requests'[id]) = Content(Row(id))]_vars

\* The owner opened the edit form on the pending request, which was then
\* claimed and completed by a crafter; the form's update was refused and the
\* request holds what it held.
C38_Witness ==
  \E p \in Procs :
    /\ Returned(p, "update_request") /\ ~calls[p].ok
    /\ window[p].pre = "pending"
    /\ window[p].past
    /\ Row(calls[p].id).requester_id = calls[p].user
    /\ Row(calls[p].id).status = "completed"
    /\ Content(Row(calls[p].id)) # Stored(calls[p].args)

\* A claim by p on a row that was pending when the claim was made and a
\* clear_pending_requests by q, both still holding their result, with nothing
\* but q having changed the row since.
ClaimClearRace(p, q) ==
  /\ p # q
  /\ Returned(p, "claim_request") /\ Returned(q, "clear_pending_requests")
  /\ Exists(calls[p].id)
  /\ window[p].pre = "pending"
  /\ window[p].seen \subseteq {q}
  /\ ~window[p].past

\* C39: clear_pending_requests sets to cancelled the rows that are pending
\* when it runs, whoever made them, returns how many they are and leaves
\* every other row as it is; beside a claim on a pending row, that row ends
\* claimed by the claim's crafter or cancelled without a crafter.
C39_ClearPending ==
  /\ [][\A p \in Procs :
          Runs(p, "clear_pending_requests") =>
            LET hits == {id \in 1..Len(requests) : Row(id).status = "pending"}
            IN /\ Len(requests') = Len(requests)
               /\ \A id \in hits : requests'[id] = [Row(id) EXCEPT !.status = "cancelled"]
               /\ \A id \in 1..Len(requests) : id \notin hits => requests'[id] = Row(id)
               /\ calls'[p].val = Cardinality(hits)]_vars
  /\ [](\A p, q \in Procs :
          ClaimClearRace(p, q) =>
            LET r == Row(calls[p].id)
            IN IF calls[p].ok
               THEN r.status = "claimed" /\ r.crafter_id = calls[p].user
               ELSE r.status = "cancelled" /\ r.crafter_id = NULL)

\* A clear ran beside a claim: it cancelled the one request still pending,
\* made by another user than the request the claim had taken just before.
C39_Witness ==
  \E p, q \in Procs :
    /\ ClaimClearRace(p, q)
    /\ calls[p].ok
    /\ calls[q].val = 1
    /\ Len(requests) = 2
    /\ Row(calls[p].id).status = "claimed"
    /\ \E id \in 1..2 :
         /\ Row(id).status = "cancelled"
         /\ Row(id).requester_id # Row(calls[p].id).requester_id

====
